---- MODULE Spec2Model ----
(***************************************************************************)
(* Authorization and session security of the PulseOps backend:            *)
(* src/core/security.py (JWTSecurity, OTPSecurity, RateLimiter,          *)
(* audit_data_access, security_context) and src/core/permissions.py       *)
(* (permission catalog, JWTPayload, data isolation, get_current_user).     *)
(*                                                                         *)
(* Python's None is the string "None"; a dict is a TLA+ record/function    *)
(* whose DOMAIN is the set of keys present; time is in whole seconds.      *)
(***************************************************************************)
EXTENDS Integers, Sequences, FiniteSets, TLC

\* ------------------------------------------------------------------ bounds
MaxTime == 3
MaxTtl == 1
MaxTokens == 1
MaxCalls == 4
MaxConcurrentCalls == 3
MaxOtpCalls == 5
MaxLimit == 2
MaxWindow == 2
MaxOtpLength == 2
MaxUses == 3
MaxReturnedSets == 2
MaxIdLength == 2
MaxTextLength == 5
MaxOtpRequests == 11

\* ------------------------------------------------------- python primitives
None == "None"

Truthy(x) == x # None /\ x # ""

Get(d, k, default) == IF k \in DOMAIN d THEN d[k] ELSE default

Range(s) == {s[i] : i \in DOMAIN s}

\* ------------------------------------------------------ permission catalog
UserRole == {"ADMIN", "DOCTOR"}

DataAccessScope == {"CLINIC_ALL", "DOCTOR_OWN", "PATIENT_SELF"}

ADMIN_PERMISSIONS ==
    {"manage_doctors", "view_all_doctors", "add_doctor", "edit_doctor",
     "remove_doctor",
     "view_all_queues", "manage_all_queues", "start_any_queue",
     "pause_any_queue", "close_any_queue",
     "view_all_patient_associations", "view_all_visit_records",
     "view_all_medical_notes", "view_doctor_notes", "export_patient_data",
     "manage_patient_privacy",
     "view_subscription", "manage_subscription", "manage_payments",
     "view_revenue", "view_billing_history", "download_reports",
     "manage_pricing",
     "configure_whatsapp", "manage_settings", "manage_users",
     "view_audit_logs", "manage_clinic_profile",
     "view_clinic_analytics", "view_doctor_performance", "generate_reports",
     "export_analytics"}

DOCTOR_PERMISSIONS ==
    {"view_own_queue", "manage_own_queue", "start_own_queue",
     "pause_own_queue", "close_own_queue", "call_next_patient",
     "skip_patient",
     "manage_own_tokens", "create_token", "update_token_status",
     "cancel_token", "view_token_history",
     "view_own_patients", "manage_own_patient_associations",
     "add_patient_association", "update_patient_association",
     "remove_patient_association",
     "add_visit_notes", "edit_visit_notes", "add_diagnosis",
     "edit_diagnosis", "add_prescription", "edit_prescription",
     "add_private_notes", "view_own_visit_history",
     "view_own_statistics", "view_own_performance", "view_own_revenue",
     "send_patient_messages", "manage_patient_notifications"}

DOCTOR_DENIED_PERMISSIONS ==
    {"view_other_doctor_patients", "view_other_doctor_notes",
     "view_cross_clinic_patient_data", "manage_other_queues",
     "view_other_doctor_revenue",
     "manage_doctors", "manage_subscription", "view_revenue",
     "manage_settings", "configure_whatsapp"}

ADMIN_ONLY_PERMISSIONS ==
    {"manage_doctors", "manage_subscription", "view_revenue",
     "configure_whatsapp", "manage_settings"}

\* every value of the Permission enum
Permission ==
    ADMIN_PERMISSIONS \cup DOCTOR_PERMISSIONS \cup DOCTOR_DENIED_PERMISSIONS

get_permissions_for_role(role) ==
    IF role = "ADMIN" THEN ADMIN_PERMISSIONS
    ELSE IF role = "DOCTOR" THEN DOCTOR_PERMISSIONS
    ELSE {}

get_data_access_scope(role) ==
    IF role = "ADMIN" THEN "CLINIC_ALL"
    ELSE IF role = "DOCTOR" THEN "DOCTOR_OWN"
    ELSE "PATIENT_SELF"

\* get_permissions_for_role on the set objects of the process: `heap` holds
\* the two module-level sets and the sets earlier calls returned; .copy() and
\* set() make a new object, which the caller gets a reference to
Read(heap, ref) ==
    IF ref.kind = "module" THEN heap.module[ref.name]
    ELSE heap.returned[ref.index]

Write(heap, ref, value) ==
    IF ref.kind = "module"
    THEN [heap EXCEPT !.module = [@ EXCEPT ![ref.name] = value]]
    ELSE [heap EXCEPT !.returned = [@ EXCEPT ![ref.index] = value]]

NewSet(heap, value) ==
    [ref |-> [kind |-> "returned", index |-> Len(heap.returned) + 1],
     objects |-> [heap EXCEPT !.returned = Append(@, value)]]

\* mutant: the module-level set itself is returned, not a copy
get_permissions_for_role_call_NoCopy(heap, role) ==
    IF role = "ADMIN"
    THEN [ref |-> [kind |-> "module", name |-> "ADMIN_PERMISSIONS"],
          objects |-> heap]
    ELSE IF role = "DOCTOR"
    THEN [ref |-> [kind |-> "module", name |-> "DOCTOR_PERMISSIONS"],
          objects |-> heap]
    ELSE NewSet(heap, {})

get_permissions_for_role_call(heap, role) ==
    IF role = "ADMIN" THEN NewSet(heap, heap.module.ADMIN_PERMISSIONS)
    ELSE IF role = "DOCTOR" THEN NewSet(heap, heap.module.DOCTOR_PERMISSIONS)
    ELSE NewSet(heap, {})

\* --------------------------------------------------------------- JWTPayload
\* JWTPayload(token_data): the enum constructors raise ValueError on a value
\* outside the enum, which includes the "" default of a missing key.
JWTPayloadRaises(token_data) ==
    \/ Get(token_data, "role", "") \notin UserRole
    \/ \E p \in Range(Get(token_data, "permissions", <<>>)) : p \notin Permission
    \/ Get(token_data, "patient_access_scope", "") \notin DataAccessScope

JWTPayload(token_data) ==
    [user_id |-> Get(token_data, "user_id", ""),
     clinic_id |-> Get(token_data, "clinic_id", ""),
     whatsapp_number |-> Get(token_data, "whatsapp_number", ""),
     doctor_id |-> Get(token_data, "doctor_id", None),
     role |-> Get(token_data, "role", ""),
     permissions |-> Range(Get(token_data, "permissions", <<>>)),
     patient_access_scope |-> Get(token_data, "patient_access_scope", ""),
     exp |-> Get(token_data, "exp", 0),
     iat |-> Get(token_data, "iat", 0),
     iss |-> Get(token_data, "iss", "")]

is_admin(self) == self.role = "ADMIN"

is_doctor(self) == self.role = "DOCTOR"

\* mutant: the clinic boundary gives way to administrators
can_access_clinic_data_AdminBypass(self, clinic_id) ==
    is_admin(self) \/ self.clinic_id = clinic_id

can_access_clinic_data(self, clinic_id) == self.clinic_id = clinic_id

\* mutant: the doctor boundary is not compared at all
can_access_doctor_data_Open(self, doctor_id) == TRUE

can_access_doctor_data(self, doctor_id) ==
    IF is_admin(self) THEN TRUE ELSE self.doctor_id = doctor_id

can_access_patient_data(self, doctor_id, patient_id) ==
    IF is_admin(self) THEN TRUE
    ELSE IF is_doctor(self) /\ self.doctor_id = doctor_id THEN TRUE
    ELSE FALSE

\* mutant: the doctor boundary is examined before the clinic boundary
validate_data_isolation_DoctorFirst(jwt_payload, resource_clinic_id, resource_doctor_id, resource_patient_id) ==
    IF /\ is_doctor(jwt_payload) /\ Truthy(resource_doctor_id)
       /\ ~can_access_doctor_data(jwt_payload, resource_doctor_id)
    THEN "DOCTOR_ACCESS_DENIED"
    ELSE IF ~can_access_clinic_data(jwt_payload, resource_clinic_id)
    THEN "CLINIC_ACCESS_DENIED"
    ELSE IF /\ Truthy(resource_patient_id) /\ Truthy(resource_doctor_id)
            /\ ~can_access_patient_data(jwt_payload, resource_doctor_id,
                                        resource_patient_id)
    THEN "PATIENT_ACCESS_DENIED"
    ELSE "ok"

validate_data_isolation(jwt_payload, resource_clinic_id, resource_doctor_id, resource_patient_id) ==
    IF ~can_access_clinic_data(jwt_payload, resource_clinic_id)
    THEN "CLINIC_ACCESS_DENIED"
    ELSE IF /\ is_doctor(jwt_payload) /\ Truthy(resource_doctor_id)
            /\ ~can_access_doctor_data(jwt_payload, resource_doctor_id)
    THEN "DOCTOR_ACCESS_DENIED"
    ELSE IF /\ Truthy(resource_patient_id) /\ Truthy(resource_doctor_id)
            /\ ~can_access_patient_data(jwt_payload, resource_doctor_id,
                                        resource_patient_id)
    THEN "PATIENT_ACCESS_DENIED"
    ELSE "ok"

\* the events validate_data_isolation writes to a logger: its body holds no
\* logging call on any path
validate_data_isolation_events(jwt_payload, resource_clinic_id, resource_doctor_id, resource_patient_id) ==
    <<>>

ensure_patient_data_isolation(user, clinic_id, doctor_id, patient_id) ==
    validate_data_isolation(user, clinic_id, doctor_id, patient_id)

ensure_patient_data_isolation_events(user, clinic_id, doctor_id, patient_id) ==
    validate_data_isolation_events(user, clinic_id, doctor_id, patient_id)

\* a list holding the members of a set, as [p.value for p in some_set] builds
RECURSIVE SetToSeq(_)
SetToSeq(S) ==
    IF S = {} THEN <<>>
    ELSE LET x == CHOOSE y \in S : TRUE IN <<x>> \o SetToSeq(S \ {x})

DefaultPayloadTtl == 3600

\* the dict create_jwt_payload hands to JWTPayload; exp_timestamp and
\* iat_timestamp are 0 when the caller passes None or 0 (both falsy for `or`)
create_jwt_payload_data(user_id, clinic_id, whatsapp_number, role, doctor_id, exp_timestamp, iat_timestamp, t) ==
    [user_id |-> user_id,
     clinic_id |-> clinic_id,
     whatsapp_number |-> whatsapp_number,
     doctor_id |-> doctor_id,
     role |-> role,
     permissions |-> SetToSeq(get_permissions_for_role(role)),
     patient_access_scope |-> get_data_access_scope(role),
     exp |-> IF exp_timestamp # 0 THEN exp_timestamp ELSE t + DefaultPayloadTtl,
     iat |-> IF iat_timestamp # 0 THEN iat_timestamp ELSE t,
     iss |-> "pulseops-api"]

\* -------------------------------------------------------------- JWTSecurity
\* auth_config.jwt_secret_key; a token is its claims and the key it was
\* signed with, and jwt.decode accepts only tokens signed with JwtSecret
JwtSecret == "jwt_secret_key"

\* jwt_access_token_expire_minutes (60), in seconds
JwtAccessTokenExpireSeconds == 3600

\* the attributes the class JWTSecurity defines
JWTSecurityAttrs ==
    {"create_access_token", "create_refresh_token", "decode_token",
     "refresh_access_token", "invalidate_token", "revoke_token",
     "is_token_revoked", "cleanup_expired_tokens"}

\* JWTSecurity(): a new instance has no _token_blacklist attribute
NewJWTSecurity == [has_blacklist |-> FALSE, entries |-> <<>>]

NoValue == [none |-> TRUE]

Result(outcome, details, value) ==
    [outcome |-> outcome, details |-> details, value |-> value]

\* the ErrorCode each exception class fixes in its constructor
error_code(exception) ==
    IF exception = "TokenExpiredError" THEN "TOKEN_EXPIRED"
    ELSE IF exception = "InvalidTokenError" THEN "INVALID_TOKEN"
    ELSE None

\* the payload create_access_token signs; permissions is [] for None
access_token_payload(user_id, clinic_id, whatsapp_number, role, doctor_id, permissions, expires_delta, t, jti) ==
    [sub |-> user_id,
     user_id |-> user_id,
     clinic_id |-> clinic_id,
     whatsapp_number |-> whatsapp_number,
     role |-> role,
     doctor_id |-> doctor_id,
     permissions |-> permissions,
     token_type |-> "access",
     iat |-> t,
     exp |-> t + expires_delta,
     jti |-> jti,
     iss |-> "pulseops-api"]

create_access_token(user_id, clinic_id, whatsapp_number, role, doctor_id, permissions, expires_delta, t, jti) ==
    [claims |-> access_token_payload(user_id, clinic_id, whatsapp_number,
                                     role, doctor_id, permissions,
                                     expires_delta, t, jti),
     key |-> JwtSecret]

create_refresh_token(user_id, clinic_id, expires_delta, t, jti) ==
    [claims |-> [sub |-> user_id,
                 user_id |-> user_id,
                 clinic_id |-> clinic_id,
                 token_type |-> "refresh",
                 iat |-> t,
                 exp |-> t + expires_delta,
                 jti |-> jti,
                 iss |-> "pulseops-api"],
     key |-> JwtSecret]

\* jwt.get_unverified_claims
get_unverified_claims(token) == token.claims

\* mutant: an entry counts as expired already at its expires_at
is_token_revoked_ExpiredAtBoundary(self, token, t) ==
    LET jti == Get(token.claims, "jti", 0) IN
    IF jti = 0 THEN [revoked |-> FALSE, self |-> self]
    ELSE IF ~self.has_blacklist THEN [revoked |-> FALSE, self |-> self]
    ELSE IF jti \notin DOMAIN self.entries
    THEN [revoked |-> FALSE, self |-> self]
    ELSE IF t >= self.entries[jti].expires_at
    THEN [revoked |-> FALSE,
          self |-> [self EXCEPT !.entries =
                       [j \in DOMAIN self.entries \ {jti} |-> self.entries[j]]]]
    ELSE [revoked |-> TRUE, self |-> self]

\* is_token_revoked on an instance: the answer and the instance afterwards
\* (an expired entry is deleted)
is_token_revoked(self, token, t) ==
    LET jti == Get(get_unverified_claims(token), "jti", 0) IN
    IF jti = 0 THEN [revoked |-> FALSE, self |-> self]
    ELSE IF ~self.has_blacklist THEN [revoked |-> FALSE, self |-> self]
    ELSE IF jti \notin DOMAIN self.entries
    THEN [revoked |-> FALSE, self |-> self]
    ELSE IF t > self.entries[jti].expires_at
    THEN [revoked |-> FALSE,
          self |-> [self EXCEPT !.entries =
                       [j \in DOMAIN self.entries \ {jti} |-> self.entries[j]]]]
    ELSE [revoked |-> TRUE, self |-> self]

\* revoke_token on an instance: the default of .get("jti", ...) is evaluated
\* first, and self._generate_jti is an attribute the class does not define
revoke_token(self, token, t) ==
    IF "_generate_jti" \notin JWTSecurityAttrs
    THEN [outcome |-> "SecurityError", self |-> self]
    ELSE LET unverified_payload == get_unverified_claims(token)
             jti == Get(unverified_payload, "jti", 0)
             exp == Get(unverified_payload, "exp", 0)
             exp_datetime == IF exp # 0 THEN exp
                             ELSE t + JwtAccessTokenExpireSeconds
             entry == [revoked_at |-> t, expires_at |-> exp_datetime,
                       token_hash |-> [sha256_16 |-> token]]
         IN [outcome |-> "ok",
             self |-> [has_blacklist |-> TRUE,
                       entries |-> [j \in DOMAIN self.entries \cup {jti} |->
                                       IF j = jti THEN entry
                                       ELSE self.entries[j]]]]

\* invalidate_token revokes on an instance of its own and swallows every
\* exception: it returns None whatever happened
invalidate_token(token, t) ==
    LET r == revoke_token(NewJWTSecurity, token, t) IN "ok"

required_fields == <<"user_id", "clinic_id", "role", "token_type", "exp", "iat">>

\* the first required field missing from the payload, "" when none is
missing_field(payload) ==
    LET missing == {i \in DOMAIN required_fields :
                        required_fields[i] \notin DOMAIN payload}
    IN IF missing = {} THEN ""
       ELSE required_fields[CHOOSE i \in missing : \A j \in missing : i <= j]

\* decode_token at time t. jose rejects a bad signature, then an exp in the
\* past (exp < now)
decode_token(token, t) ==
    IF is_token_revoked(NewJWTSecurity, token, t).revoked
    THEN Result("InvalidTokenError", "Token has been revoked", NoValue)
    ELSE IF token.key # JwtSecret
    THEN Result("InvalidTokenError", "jwt_error", NoValue)
    ELSE IF "exp" \in DOMAIN token.claims /\ token.claims.exp < t
    THEN Result("TokenExpiredError", "", NoValue)
    ELSE IF missing_field(token.claims) # ""
    THEN Result("InvalidTokenError", "missing_field", NoValue)
    ELSE Result("ok", "", token.claims)

\* a record a logger call emits
LogEvent(level, event_type) == [level |-> level, event_type |-> event_type]

\* the events one decode_token call sends to security_logger, in order. The
\* InvalidTokenError of the revocation and required-field checks is no
\* JWTError: it leaves through neither except clause and nothing is logged.
\* For a string that is not a JWT, is_token_revoked logs its own failure first
decode_token_events(token, t) ==
    LET r == decode_token(token, t) IN
    (IF token.key = None
     THEN <<LogEvent("warning", "blacklist_check_error")>> ELSE <<>>)
    \o (IF r.outcome = "ok" THEN <<LogEvent("info", "token_decode")>>
        ELSE IF r.outcome = "TokenExpiredError"
        THEN <<LogEvent("warning", "token_expired")>>
        ELSE IF r.details = "jwt_error"
        THEN <<LogEvent("error", "token_invalid")>>
        ELSE <<>>)

\* mutant: refresh_access_token without the token_type check
refresh_access_token_NoTypeCheck(refresh_token, t, jti) ==
    LET decoded == decode_token(refresh_token, t) IN
    IF decoded.outcome # "ok" THEN decoded
    ELSE Result("ok", "",
                create_access_token(decoded.value.user_id,
                                    decoded.value.clinic_id, "",
                                    decoded.value.role, None, <<>>,
                                    JwtAccessTokenExpireSeconds, t, jti))

\* refresh_access_token at time t; jti is the id a new token would get
refresh_access_token(refresh_token, t, jti) ==
    LET decoded == decode_token(refresh_token, t) IN
    IF decoded.outcome # "ok" THEN decoded
    ELSE IF Get(decoded.value, "token_type", None) # "refresh"
    THEN Result("InvalidTokenError", "expected_type", NoValue)
    ELSE IF decoded.value.role \notin UserRole
    THEN Result("ValueError", "", NoValue)
    ELSE Result("ok", "",
                create_access_token(decoded.value.user_id,
                                    decoded.value.clinic_id, "",
                                    decoded.value.role, None, <<>>,
                                    JwtAccessTokenExpireSeconds, t, jti))

\* get_current_user at time t. PyJWT rejects a bad signature, then an exp
\* that is not in the future (exp <= now); every other exception, the
\* TokenExpiredError of is_expired included, leaves as InvalidTokenError
get_current_user(token, t) ==
    IF token.key # JwtSecret
    THEN Result("InvalidTokenError", "", NoValue)
    ELSE IF "exp" \in DOMAIN token.claims /\ token.claims.exp <= t
    THEN Result("TokenExpiredError", "", NoValue)
    ELSE IF JWTPayloadRaises(token.claims)
    THEN Result("InvalidTokenError", "error", NoValue)
    ELSE IF t > JWTPayload(token.claims).exp
    THEN Result("InvalidTokenError", "error", NoValue)
    ELSE Result("ok", "", JWTPayload(token.claims))

\* --------------------------------------------------------------- RateLimiter
\* the list comprehension that drops the timestamps at or before
\* window_start
clean_old_requests(history, window_start) ==
    SelectSeq(history, LAMBDA req_time : req_time > window_start)

\* mutant: the limit test lets one request too many through
check_rate_limit_OffByOne(history, limit, window_seconds, t) ==
    LET cleaned == clean_old_requests(history, t - window_seconds) IN
    IF Len(cleaned) > limit
    THEN [outcome |-> "RateLimitExceededError", history |-> cleaned]
    ELSE [outcome |-> "ok", history |-> Append(cleaned, t)]

\* mutant: a rejected call is recorded like an accepted one
check_rate_limit_RecordsRejected(history, limit, window_seconds, t) ==
    LET cleaned == clean_old_requests(history, t - window_seconds) IN
    IF Len(cleaned) >= limit
    THEN [outcome |-> "RateLimitExceededError", history |-> Append(cleaned, t)]
    ELSE [outcome |-> "ok", history |-> Append(cleaned, t)]

\* check_rate_limit at time t on the identifier's history (an identifier
\* without a key gets the empty list first): the outcome and the history
\* the call leaves in self._requests[identifier]
check_rate_limit(history, limit, window_seconds, t) ==
    LET cleaned == clean_old_requests(history, t - window_seconds) IN
    IF Len(cleaned) >= limit
    THEN [outcome |-> "RateLimitExceededError", history |-> cleaned]
    ELSE [outcome |-> "ok", history |-> Append(cleaned, t)]

\* the warning check_rate_limit logs before it raises, none when it returns
check_rate_limit_events(identifier, history, limit, window_seconds, request_type, t) ==
    LET cleaned == clean_old_requests(history, t - window_seconds) IN
    IF Len(cleaned) >= limit
    THEN <<[level |-> "warning", event_type |-> "rate_limit_exceeded",
            identifier |-> identifier, request_type |-> request_type,
            limit |-> limit, window_seconds |-> window_seconds,
            current_count |-> Len(cleaned)]>>
    ELSE <<>>

\* mutant: the caller is told to come back one second early
RateLimitExceededError_ShortRetry(identifier, limit, window_seconds) ==
    [error |-> "RateLimitExceededError",
     error_code |-> "RATE_LIMIT_EXCEEDED",
     http_status |-> 429,
     details |-> [identifier |-> identifier, limit |-> limit,
                  window_seconds |-> window_seconds,
                  retry_after |-> window_seconds - 1]]

\* the exception check_rate_limit raises, with the details it carries
RateLimitExceededError(identifier, limit, window_seconds) ==
    [error |-> "RateLimitExceededError",
     error_code |-> "RATE_LIMIT_EXCEEDED",
     http_status |-> 429,
     details |-> [identifier |-> identifier, limit |-> limit,
                  window_seconds |-> window_seconds,
                  retry_after |-> window_seconds]]

\* auth_config.otp_rate_limit_per_hour
OtpRateLimitPerHour == 10

\* f"otp:{whatsapp_number}"
otp_identifier(whatsapp_number) == <<"o", "t", "p", ":">> \o whatsapp_number

\* --------------------------------------------------------------- OTPSecurity
\* strings are sequences of characters; hashlib.sha256 is collision free, so
\* a digest is its preimage wrapped
sha256(string) == [sha256 |-> string]

\* auth_config.otp_max_attempts
OtpMaxAttempts == 3

create_otp_hash(otp, request_id) ==
    sha256(otp \o <<":">> \o request_id \o <<":">> \o <<JwtSecret>>)

verify_otp(otp, stored_hash, request_id) ==
    create_otp_hash(otp, request_id) = stored_hash

\* ------------------------------------------- audit logging around an action
\* what the wrapped action can raise: subclasses of Exception, and exceptions
\* that derive from BaseException only (asyncio.CancelledError since
\* Python 3.8)
ExceptionSubclasses == {"ValueError", "AuthorizationError", "SinkError"}

BaseExceptionsOnly == {"KeyboardInterrupt", "CancelledError"}

Returned == [outcome |-> "returned"]

Raised(error) == [outcome |-> "raised", error |-> error]

\* the record log_data_access_event hands to the audit logger
AuditEvent(event_type, success, details) ==
    [event_type |-> event_type, success |-> success, details |-> details]

\* one log_data_access_event call: the event is written, or the call raises
\* (sink_ok = FALSE) and nothing is written
log_data_access_event(sink_ok, event) ==
    IF sink_ok THEN [events |-> <<event>>, raised |-> None]
    ELSE [events |-> <<>>, raised |-> "SinkError"]

\* security_context up to its yield: operation_start is logged outside the
\* try block
security_context_enter(correlation_id, sink_ok) ==
    log_data_access_event(sink_ok,
        AuditEvent("operation_start", TRUE,
                   [correlation_id |-> correlation_id]))

\* security_context from its yield on, given how the with-block ended.
\* sinks[1] is the operation_success call, sinks[2] the operation_failure
\* call; an exception of the success call is caught by `except Exception`
\* like one of the block
security_context_exit(correlation_id, body, sinks) ==
    LET failure(e) ==
            log_data_access_event(sinks[2],
                AuditEvent("operation_failure", FALSE,
                           [correlation_id |-> correlation_id,
                            error_type |-> e]))
        success ==
            log_data_access_event(sinks[1],
                AuditEvent("operation_success", TRUE,
                           [correlation_id |-> correlation_id]))
        handler(e) ==
            IF failure(e).raised # None
            THEN [events |-> <<>>, raised |-> failure(e).raised]
            ELSE [events |-> failure(e).events, raised |-> e]
    IN IF body.outcome = "returned"
       THEN IF success.raised = None THEN success
            ELSE handler(success.raised)
       ELSE IF body.error \in ExceptionSubclasses THEN handler(body.error)
       ELSE [events |-> <<>>, raised |-> body.error]

\* the wrapper of audit_data_access after `await func(...)` ended as `body`;
\* user_context is kwargs.get("current_user")
audit_data_access_wrapper(user_context, body, sinks) ==
    LET failure(e) ==
            log_data_access_event(sinks[2],
                AuditEvent("data_access_failure", FALSE, [error |-> e]))
        success ==
            log_data_access_event(sinks[1],
                AuditEvent("data_access_success", TRUE, <<>>))
        handler(e) ==
            IF ~Truthy(user_context) THEN [events |-> <<>>, raised |-> e]
            ELSE IF failure(e).raised # None
            THEN [events |-> <<>>, raised |-> failure(e).raised]
            ELSE [events |-> failure(e).events, raised |-> e]
    IN IF body.outcome = "returned"
       THEN IF ~Truthy(user_context) THEN [events |-> <<>>, raised |-> None]
            ELSE IF success.raised = None THEN success
            ELSE handler(success.raised)
       ELSE IF body.error \in ExceptionSubclasses THEN handler(body.error)
       ELSE [events |-> <<>>, raised |-> body.error]

\* ------------------------------------------------------------ exceptions.py
\* the classes that pass no http_status of their own and so carry the one
\* their base class fixes
AuthenticationErrors ==
    {"AuthenticationError", "InvalidCredentialsError", "TokenExpiredError",
     "InvalidTokenError", "OTPExpiredError", "OTPInvalidError",
     "OTPMaxAttemptsError"}

AuthorizationErrors == {"AuthorizationError", "InsufficientPermissionsError"}

ValidationErrors ==
    {"ValidationError", "InvalidInputError", "MissingRequiredFieldError",
     "InvalidPhoneNumberError"}

ExternalServiceErrors ==
    {"ExternalServiceError", "WhatsAppServiceError", "PaymentServiceError",
     "DatabaseError"}

ExceptionClasses ==
    AuthenticationErrors \cup AuthorizationErrors \cup ValidationErrors
        \cup ExternalServiceErrors
        \cup {"PulseOpsException", "SecurityError", "RateLimitExceededError"}

\* exception.http_status, which create_http_exception copies to status_code
http_status(exception) ==
    IF exception \in AuthenticationErrors THEN 401
    ELSE IF exception \in AuthorizationErrors THEN 403
    ELSE IF exception \in ValidationErrors THEN 422
    ELSE IF exception \in ExternalServiceErrors THEN 503
    ELSE IF exception = "RateLimitExceededError" THEN 429
    ELSE 500

\* ------------------------------------------------------------ DataEncryption
\* DataEncryption(encryption_key): the key given, or else the one derived
\* from the JWT secret with the fixed salt
DataEncryption(encryption_key) ==
    [key |-> IF Truthy(encryption_key) THEN [encoded |-> encryption_key]
             ELSE [pbkdf2 |-> JwtSecret, salt |-> "pulseops_salt"]]

\* a str value: text typed by a caller, or the base64 text of a Fernet token
Text(chars) == [kind |-> "text", chars |-> chars]

\* Fernet(key).encrypt: the token depends on the key, the random IV and
\* timestamp, and the plaintext
fernet_encrypt(key, iv, plaintext) ==
    [kind |-> "fernet", key |-> key, iv |-> iv, plaintext |-> plaintext]

\* base64.urlsafe_b64encode(...).decode(): the text form of some bytes
urlsafe_b64encode(bytes) == [kind |-> "b64", bytes |-> bytes]

\* mutant: the configuration switch is read the wrong way round
encrypt_sensitive_data_Inverted(self, data, data_encryption_enabled, iv) ==
    IF data_encryption_enabled THEN Result("ok", "", data)
    ELSE Result("ok", "",
                urlsafe_b64encode(fernet_encrypt(self.key, iv, data)))

\* encrypt_sensitive_data: cipher.encrypt, then urlsafe_b64encode
encrypt_sensitive_data(self, data, data_encryption_enabled, iv) ==
    IF ~data_encryption_enabled THEN Result("ok", "", data)
    ELSE Result("ok", "",
                urlsafe_b64encode(fernet_encrypt(self.key, iv, data)))

\* decrypt_sensitive_data: urlsafe_b64decode, then cipher.decrypt; a string
\* that does not hold a token of this key makes one of them raise, which
\* becomes SecurityError
decrypt_sensitive_data(self, encrypted_data, data_encryption_enabled) ==
    IF ~data_encryption_enabled THEN Result("ok", "", encrypted_data)
    ELSE IF /\ encrypted_data.kind = "b64"
            /\ encrypted_data.bytes.kind = "fernet"
            /\ encrypted_data.bytes.key = self.key
    THEN Result("ok", "", encrypted_data.bytes.plaintext)
    ELSE Result("SecurityError", "decryption_error", NoValue)

\* mask_char * n
Repeat(mask_char, n) == [i \in 1..n |-> mask_char]

\* mutant: the first two characters are kept
mask_pii_data_KeepsTwo(data, mask_char, pii_masking_enabled) ==
    IF ~pii_masking_enabled THEN data
    ELSE IF Len(data) < 4 THEN Repeat(mask_char, Len(data))
    ELSE <<data[1], data[2]>> \o Repeat(mask_char, Len(data) - 3)
             \o <<data[Len(data)]>>

mask_pii_data(data, mask_char, pii_masking_enabled) ==
    IF ~pii_masking_enabled THEN data
    ELSE IF Len(data) < 4 THEN Repeat(mask_char, Len(data))
    ELSE <<data[1]>> \o Repeat(mask_char, Len(data) - 2)
             \o <<data[Len(data)]>>

mask_phone_number(phone) ==
    IF Len(phone) <= 6 THEN Repeat("*", Len(phone))
    ELSE SubSeq(phone, 1, 3) \o Repeat("*", Len(phone) - 6)
             \o SubSeq(phone, Len(phone) - 2, Len(phone))

\* the record log_authentication_event hands to the audit logger; a falsy
\* whatsapp_number (None or "") is logged as None
log_authentication_event(event_type, user_id, whatsapp_number, success) ==
    [level |-> IF success THEN "info" ELSE "warning",
     event_category |-> "authentication",
     event_type |-> event_type,
     user_id |-> user_id,
     whatsapp_number |-> IF whatsapp_number = <<>> THEN None
                         ELSE mask_phone_number(whatsapp_number),
     success |-> success]

\* ------------------------------------------------- permission decorators
\* kwargs.get("current_user") when the caller passed none
NoCurrentUser == [missing |-> TRUE]

\* mutant: the permission set is not consulted
validate_permission_access_Open(user_permissions, required_permission, user_role) ==
    "ok"

validate_permission_access(user_permissions, required_permission, user_role) ==
    IF required_permission \notin user_permissions
    THEN "InsufficientPermissionsError"
    ELSE "ok"

has_any_permission(self, permissions) ==
    \E p \in Range(permissions) : p \in self.permissions

\* how a decorated call ends and whether `await func(...)` was reached
Refused(error, code) == [outcome |-> error, error_code |-> code, ran |-> FALSE]

Ran == [outcome |-> "ok", error_code |-> None, ran |-> TRUE]

require_permission_wrapper(required_permission, current_user) ==
    IF current_user = NoCurrentUser
    THEN Refused("AuthenticationError", "MISSING_USER_CONTEXT")
    ELSE IF validate_permission_access(current_user.permissions,
                required_permission, current_user.role) # "ok"
    THEN Refused("InsufficientPermissionsError", "INSUFFICIENT_PERMISSIONS")
    ELSE Ran

require_any_permission_wrapper(required_permissions, current_user) ==
    IF current_user = NoCurrentUser
    THEN Refused("AuthenticationError", "MISSING_USER_CONTEXT")
    ELSE IF ~has_any_permission(current_user, required_permissions)
    THEN Refused("InsufficientPermissionsError", "INSUFFICIENT_PERMISSIONS")
    ELSE Ran

require_role_wrapper(required_role, current_user) ==
    IF current_user = NoCurrentUser
    THEN Refused("AuthenticationError", "MISSING_USER_CONTEXT")
    ELSE IF current_user.role # required_role
    THEN Refused("InsufficientPermissionsError", "INSUFFICIENT_PERMISSIONS")
    ELSE Ran

\* rate_limited's wrapper: `rate_limiter = RateLimiter()` builds a limiter
\* with an empty _requests on every call, and the check runs on that one
rate_limited_wrapper(identifier, limit, window_seconds, t) ==
    LET rate_limiter == [_requests |-> <<>>]
        r == check_rate_limit(rate_limiter._requests, limit, window_seconds, t)
    IN IF r.outcome = "ok" THEN Ran
       ELSE Refused(r.outcome, "RATE_LIMIT_EXCEEDED")

\* ---------------------------------------------------------------- the state
VARIABLES
    now,        \* datetime.now(timezone.utc), in seconds
    identity,   \* the JWTPayload object a request holds, or how building it failed
    iso,        \* the last validate_data_isolation call and its outcome
    tokens,     \* the tokens minted so far by create_access/refresh_token
    nextJti,    \* stands for uuid4(): the next unused jti
    blacklist,  \* _token_blacklist of each long-lived JWTSecurity instance
    res,        \* the last JWT call: its token, time and outcome
    returned,   \* jtis for which revoke_token/invalidate_token returned normally
    limit,      \* the limit the call site passes to check_rate_limit
    window,     \* the window_seconds the call site passes
    requests,   \* RateLimiter._requests: identifier -> list of timestamps
    rl,         \* the last check_rate_limit call and its outcome
    granted,    \* per identifier, the times of the calls that returned True
    calls,      \* number of check_rate_limit calls started
    pc,         \* per concurrent request, its position in check_rate_limit
    frame,      \* per concurrent request, the locals of its call
    otpStore,   \* per request id, the hash the caller stored for the challenge
    otpLog,     \* the otp_verify log events: (request_id, success) per call
    ctx,        \* the security_context / audit_data_access use in progress
    uses,       \* number of such uses started
    objects,    \* the set objects alive: the module's two and returned copies
    got,        \* the last get_permissions_for_role call and what it returned
    rejected,   \* per identifier, the rejection its last check_rate_limit raised
    util,       \* the last call of an exception constructor or a PII/OTP helper
    handled,    \* the last call of a decorated handler and how it ended
    runs        \* per identifier, the times the rate_limited handler body ran

jwtVars == <<tokens, nextJti, blacklist, res, returned>>
accessVars == <<identity, iso>>
rateVars == <<limit, window, requests, rl, granted, calls, pc, frame, rejected>>
utilVars == <<util>>
decoratorVars == <<handled, runs>>
otpVars == <<otpStore, otpLog>>
contextVars == <<ctx, uses>>
catalogVars == <<objects, got>>
vars == <<now, identity, iso, tokens, nextJti, blacklist, res, returned,
          limit, window, requests, rl, granted, calls, pc, frame,
          otpStore, otpLog, ctx, uses, objects, got, rejected, util, handled,
          runs>>

NoContext == [pc |-> "idle"]

\* ADMIN_PERMISSIONS and DOCTOR_PERMISSIONS as the module creates them
ModuleSets ==
    [ADMIN_PERMISSIONS |-> ADMIN_PERMISSIONS,
     DOCTOR_PERMISSIONS |-> DOCTOR_PERMISSIONS]

\* ------------------------------------------------- inputs of the operations
UserIds == {"u1"}
ClinicIds == {"c1", "c2"}
DoctorIds == {"d1", "d2"}
PatientIds == {"p1"}
Phones == {"+919876543210"}

NoIdentity == [state |-> "none"]
NoIso == [state |-> "none"]

\* permission lists a token payload may carry
PermissionLists ==
    {<<>>, <<"manage_doctors">>, <<"view_own_queue", "create_token">>,
     <<"superuser">>,
     SetToSeq(ADMIN_PERMISSIONS), SetToSeq(DOCTOR_PERMISSIONS)}

\* decoded payloads of validly signed tokens, with and without the
\* patient_access_scope key
TokenDataInputs ==
    LET Base == [user_id : UserIds, clinic_id : ClinicIds,
                 whatsapp_number : Phones,
                 doctor_id : DoctorIds \cup {None},
                 role : UserRole \cup {"NURSE"},
                 permissions : PermissionLists,
                 exp : {MaxTime + 1}, iat : {0}, iss : {"pulseops-api"}]
        Scoped == [user_id : UserIds, clinic_id : ClinicIds,
                   whatsapp_number : Phones,
                   doctor_id : DoctorIds \cup {None},
                   role : UserRole \cup {"NURSE"},
                   permissions : PermissionLists,
                   patient_access_scope : DataAccessScope,
                   exp : {MaxTime + 1}, iat : {0}, iss : {"pulseops-api"}]
    IN Base \cup Scoped

\* ------------------------------------------- identities and data isolation
\* JWTPayload(token_data) on a decoded payload; a request builds its identity
\* once and never mutates it
ConstructJWTPayload(token_data) ==
    /\ identity = NoIdentity
    /\ identity' = IF JWTPayloadRaises(token_data)
                   THEN [state |-> "ValueError", via |-> "JWTPayload",
                         data |-> token_data]
                   ELSE [state |-> "ok", via |-> "JWTPayload",
                         data |-> token_data, self |-> JWTPayload(token_data)]
    /\ iso' = NoIso
    /\ UNCHANGED <<now, jwtVars, rateVars, otpVars, contextVars, catalogVars,
                   utilVars, decoratorVars>>

CreateJwtPayload(user_id, clinic_id, whatsapp_number, role, doctor_id, exp_timestamp, iat_timestamp) ==
    LET payload_data ==
            create_jwt_payload_data(user_id, clinic_id, whatsapp_number, role,
                                    doctor_id, exp_timestamp, iat_timestamp,
                                    now)
    IN /\ identity = NoIdentity
       /\ identity' = IF JWTPayloadRaises(payload_data)
                      THEN [state |-> "ValueError",
                            via |-> "create_jwt_payload",
                            data |-> payload_data]
                      ELSE [state |-> "ok", via |-> "create_jwt_payload",
                            data |-> payload_data,
                            self |-> JWTPayload(payload_data)]
       /\ iso' = NoIso
       /\ UNCHANGED <<now, jwtVars, rateVars, otpVars, contextVars, catalogVars,
                   utilVars, decoratorVars>>

ValidateDataIsolation(resource_clinic_id, resource_doctor_id, resource_patient_id) ==
    /\ identity.state = "ok"
    /\ iso = NoIso
    /\ iso' = [state |-> "done",
               via |-> "validate_data_isolation",
               resource_clinic_id |-> resource_clinic_id,
               resource_doctor_id |-> resource_doctor_id,
               resource_patient_id |-> resource_patient_id,
               outcome |-> validate_data_isolation(identity.self,
                               resource_clinic_id, resource_doctor_id,
                               resource_patient_id),
               events |-> validate_data_isolation_events(identity.self,
                              resource_clinic_id, resource_doctor_id,
                              resource_patient_id)]
    /\ UNCHANGED <<now, identity, jwtVars, rateVars, otpVars,
                   contextVars, catalogVars,
                   utilVars, decoratorVars>>

EnsurePatientDataIsolation(clinic_id, doctor_id, patient_id) ==
    /\ identity.state = "ok"
    /\ iso = NoIso
    /\ iso' = [state |-> "done",
               via |-> "ensure_patient_data_isolation",
               resource_clinic_id |-> clinic_id,
               resource_doctor_id |-> doctor_id,
               resource_patient_id |-> patient_id,
               outcome |-> ensure_patient_data_isolation(identity.self,
                               clinic_id, doctor_id, patient_id),
               events |-> ensure_patient_data_isolation_events(identity.self,
                              clinic_id, doctor_id, patient_id)]
    /\ UNCHANGED <<now, identity, jwtVars, rateVars, otpVars,
                   contextVars, catalogVars,
                   utilVars, decoratorVars>>

\* ------------------------------------------------------ JWTSecurity actions
\* the long-lived JWTSecurity objects: the module-level jwt_security and
\* one a caller constructed
Instances == {"jwt_security", "caller_instance"}

JwtClinicIds == {"c1"}
JwtDoctorIds == {"d1"}
\* the permissions argument: callers leave it None, which becomes []
TokenPermissionArgs == {<<>>}
Ttls == 1..MaxTtl

\* what a client can present: a minted token, or its claims signed with
\* another key
Forge(token) == [token EXCEPT !.key = "other_key"]

\* a bearer string that is not a JWT: no claims can be read from it and no
\* key verifies it
NotAJwt == [claims |-> <<>>, key |-> None]

Presentable == tokens \cup {Forge(token) : token \in tokens} \cup {NotAJwt}

JwtCall(op, token, r) ==
    [op |-> op, token |-> token, t |-> now,
     afterRevoke |-> Get(token.claims, "jti", 0) \in returned,
     outcome |-> r.outcome, details |-> r.details, value |-> r.value]

CreateAccessToken(user_id, clinic_id, whatsapp_number, role, doctor_id, permissions, expires_delta) ==
    LET token == create_access_token(user_id, clinic_id, whatsapp_number,
                                     role, doctor_id, permissions,
                                     expires_delta, now, nextJti)
    IN /\ Cardinality(tokens) < MaxTokens
       /\ tokens' = tokens \cup {token}
       /\ nextJti' = nextJti + 1
       /\ res' = JwtCall("create_access_token", token, Result("ok", "", token))
       /\ UNCHANGED <<now, blacklist, returned, accessVars, rateVars, otpVars,
                   contextVars, catalogVars,
                   utilVars, decoratorVars>>

CreateRefreshToken(user_id, clinic_id, expires_delta) ==
    LET token == create_refresh_token(user_id, clinic_id, expires_delta, now,
                                      nextJti)
    IN /\ Cardinality(tokens) < MaxTokens
       /\ tokens' = tokens \cup {token}
       /\ nextJti' = nextJti + 1
       /\ res' = JwtCall("create_refresh_token", token, Result("ok", "", token))
       /\ UNCHANGED <<now, blacklist, returned, accessVars, rateVars, otpVars,
                   contextVars, catalogVars,
                   utilVars, decoratorVars>>

\* a call and the events it sent to security_logger
JwtCallLogged(op, token, r, events) ==
    [op |-> op, token |-> token, t |-> now,
     afterRevoke |-> Get(token.claims, "jti", 0) \in returned,
     outcome |-> r.outcome, details |-> r.details, value |-> r.value,
     events |-> events]

DecodeToken(token) ==
    /\ res' = JwtCallLogged("decode_token", token, decode_token(token, now),
                            decode_token_events(token, now))
    /\ UNCHANGED <<now, tokens, nextJti, blacklist, returned, accessVars, rateVars, otpVars,
                   contextVars, catalogVars,
                   utilVars, decoratorVars>>

RefreshAccessToken(refresh_token) ==
    LET r == refresh_access_token(refresh_token, now, nextJti) IN
    /\ r.outcome = "ok" => Cardinality(tokens) <= MaxTokens
    /\ res' = JwtCall("refresh_access_token", refresh_token, r)
    /\ tokens' = IF r.outcome = "ok" THEN tokens \cup {r.value} ELSE tokens
    /\ nextJti' = IF r.outcome = "ok" THEN nextJti + 1 ELSE nextJti
    /\ UNCHANGED <<now, blacklist, returned, accessVars, rateVars, otpVars,
                   contextVars, catalogVars,
                   utilVars, decoratorVars>>

InvalidateToken(token) ==
    /\ res' = JwtCall("invalidate_token", token,
                      Result(invalidate_token(token, now), "", NoValue))
    /\ returned' = returned \cup {token.claims.jti}
    /\ UNCHANGED <<now, tokens, nextJti, blacklist, accessVars, rateVars, otpVars,
                   contextVars, catalogVars,
                   utilVars, decoratorVars>>

RevokeToken(instance, token) ==
    LET r == revoke_token(blacklist[instance], token, now) IN
    /\ res' = JwtCall("revoke_token", token, Result(r.outcome, "", NoValue))
    /\ blacklist' = [blacklist EXCEPT ![instance] = r.self]
    /\ returned' = IF r.outcome = "ok"
                   THEN returned \cup {token.claims.jti} ELSE returned
    /\ UNCHANGED <<now, tokens, nextJti, accessVars, rateVars, otpVars,
                   contextVars, catalogVars,
                   utilVars, decoratorVars>>

\* a call on an instance: the instance and its attributes before the call
JwtCallOn(op, token, r, instance) ==
    [op |-> op, token |-> token, t |-> now,
     afterRevoke |-> Get(token.claims, "jti", 0) \in returned,
     outcome |-> r.outcome, details |-> r.details, value |-> r.value,
     instance |-> instance, before |-> blacklist[instance]]

IsTokenRevoked(instance, token) ==
    LET r == is_token_revoked(blacklist[instance], token, now) IN
    /\ res' = JwtCallOn("is_token_revoked", token,
                        Result(IF r.revoked THEN "True" ELSE "False", "",
                               NoValue),
                        instance)
    /\ blacklist' = [blacklist EXCEPT ![instance] = r.self]
    /\ UNCHANGED <<now, tokens, nextJti, returned, accessVars, rateVars, otpVars,
                   contextVars, catalogVars,
                   utilVars, decoratorVars>>

GetCurrentUser(token) ==
    /\ res' = JwtCall("get_current_user", token, get_current_user(token, now))
    /\ UNCHANGED <<now, tokens, nextJti, blacklist, returned, accessVars, rateVars, otpVars,
                   contextVars, catalogVars,
                   utilVars, decoratorVars>>

NoCall == [op |-> "none"]

\* the clock advances between calls; a call's result belongs to its caller
\* and is gone by the next second
Tick ==
    /\ now < MaxTime
    /\ now' = now + 1
    /\ res' = NoCall
    /\ UNCHANGED <<tokens, nextJti, blacklist, returned, accessVars, rateVars, otpVars,
                   contextVars, catalogVars,
                   utilVars, decoratorVars>>

\* ------------------------------------------------------ RateLimiter actions
\* a string that is masked or joined is a sequence of characters
PhoneNumber == <<"+", "9", "1", "9", "8", "7", "6", "5", "4", "3", "2", "1", "0">>

Identifiers == {"otp:+919876543210", "u1"}

\* the identifier's last call returned, or it has made none
NotRejected == [raised |-> FALSE]

\* one whole check_rate_limit call
CheckRateLimit(identifier) ==
    LET r == check_rate_limit(requests[identifier], limit, window, now) IN
    /\ calls < MaxCalls
    /\ calls' = calls + 1
    /\ requests' = [requests EXCEPT ![identifier] = r.history]
    /\ rl' = [op |-> "check_rate_limit", identifier |-> identifier, t |-> now,
              outcome |-> r.outcome,
              limit |-> limit, window_seconds |-> window,
              before |-> requests[identifier], after |-> r.history,
              events |-> check_rate_limit_events(identifier,
                             requests[identifier], limit, window, "api", now),
              previous |-> rejected[identifier]]
    /\ granted' = IF r.outcome = "ok"
                  THEN [granted EXCEPT ![identifier] = Append(@, now)]
                  ELSE granted
    /\ rejected' = [rejected EXCEPT ![identifier] =
                        IF r.outcome = "ok" THEN NotRejected
                        ELSE [raised |-> TRUE, t |-> now,
                              error |-> RateLimitExceededError(identifier,
                                            limit, window)]]
    /\ UNCHANGED <<now, limit, window, pc, frame, jwtVars, accessVars, otpVars,
                   contextVars, catalogVars,
                   utilVars, decoratorVars>>

\* check_rate_limit run by concurrent requests on the shared RateLimiter:
\* nothing in it holds a lock, so requests interleave between its statements
Threads == {"request1", "request2"}

NoFrame == [identifier |-> "", now |-> 0, cleaned |-> <<>>]

\* now = datetime.now(...); window_start; the identifier's key is created
EnterCheck(th, identifier) ==
    /\ pc[th] = "idle"
    /\ calls < MaxConcurrentCalls
    /\ calls' = calls + 1
    /\ frame' = [frame EXCEPT ![th] = [identifier |-> identifier, now |-> now,
                                       cleaned |-> <<>>]]
    /\ pc' = [pc EXCEPT ![th] = "clean"]
    /\ UNCHANGED <<now, limit, window, rejected, requests, rl, granted,
                   jwtVars, accessVars, otpVars, contextVars, catalogVars,
                   utilVars, decoratorVars>>

\* the list comprehension is evaluated over the list as it is now
CleanOld(th) ==
    /\ pc[th] = "clean"
    /\ frame' = [frame EXCEPT ![th].cleaned =
                     clean_old_requests(requests[frame[th].identifier],
                                        frame[th].now - window)]
    /\ pc' = [pc EXCEPT ![th] = "store"]
    /\ UNCHANGED <<now, limit, window, rejected, requests, rl, granted, calls,
                   jwtVars, accessVars, otpVars, contextVars, catalogVars,
                   utilVars, decoratorVars>>

\* its value is assigned to self._requests[identifier]
StoreCleaned(th) ==
    /\ pc[th] = "store"
    /\ requests' = [requests EXCEPT ![frame[th].identifier] = frame[th].cleaned]
    /\ pc' = [pc EXCEPT ![th] = "check"]
    /\ UNCHANGED <<now, limit, window, rejected, rl, granted, calls, frame,
                   jwtVars, accessVars, otpVars, contextVars, catalogVars,
                   utilVars, decoratorVars>>

\* if len(self._requests[identifier]) >= limit: raise
CheckLimit(th) ==
    /\ pc[th] = "check"
    /\ IF Len(requests[frame[th].identifier]) >= limit
       THEN /\ pc' = [pc EXCEPT ![th] = "idle"]
            /\ frame' = [frame EXCEPT ![th] = NoFrame]
            /\ rl' = [op |-> "check_rate_limit",
                      identifier |-> frame[th].identifier,
                      t |-> frame[th].now,
                      outcome |-> "RateLimitExceededError"]
       ELSE /\ pc' = [pc EXCEPT ![th] = "append"]
            /\ UNCHANGED <<frame, rl>>
    /\ UNCHANGED <<now, limit, window, rejected, requests, granted, calls,
                   jwtVars, accessVars, otpVars, contextVars, catalogVars,
                   utilVars, decoratorVars>>

\* self._requests[identifier].append(now); return True
AppendRequest(th) ==
    /\ pc[th] = "append"
    /\ requests' = [requests EXCEPT ![frame[th].identifier] =
                        Append(@, frame[th].now)]
    /\ granted' = [granted EXCEPT ![frame[th].identifier] =
                       Append(@, frame[th].now)]
    /\ rl' = [op |-> "check_rate_limit", identifier |-> frame[th].identifier,
              t |-> frame[th].now, outcome |-> "ok"]
    /\ pc' = [pc EXCEPT ![th] = "idle"]
    /\ frame' = [frame EXCEPT ![th] = NoFrame]
    /\ UNCHANGED <<now, limit, window, rejected, calls,
                   jwtVars, accessVars, otpVars, contextVars, catalogVars,
                   utilVars, decoratorVars>>

\* ------------------------------------------------------ OTPSecurity actions
RequestIds == {<<"r", "1">>, <<"r", "2">>}
\* generate_otp(length) draws `length` digits
Codes == [1..MaxOtpLength -> {"1", "2"}]

NoRecord == [none |-> TRUE]

\* generate_otp and create_otp_hash: the caller stores the hash under the
\* request id
IssueOtp(request_id, otp) ==
    /\ otpStore[request_id] = NoRecord
    /\ otpStore' = [otpStore EXCEPT
                       ![request_id] = create_otp_hash(otp, request_id)]
    /\ UNCHANGED <<now, otpLog, jwtVars, accessVars, rateVars,
                   contextVars, catalogVars,
                   utilVars, decoratorVars>>

VerifyOtp(request_id, otp) ==
    /\ otpStore[request_id] # NoRecord
    /\ Len(otpLog) < MaxOtpCalls
    /\ otpLog' = Append(otpLog,
                        [request_id |-> request_id,
                         success |-> verify_otp(otp, otpStore[request_id],
                                                request_id)])
    /\ UNCHANGED <<now, otpStore, jwtVars, accessVars, rateVars,
                   contextVars, catalogVars,
                   utilVars, decoratorVars>>

\* ------------------------------------------- security_context and wrapper
NotRun == [outcome |-> "none"]

BodyOutcomes ==
    {Returned} \cup
    {Raised(e) : e \in {"ValueError", "AuthorizationError"}
                       \cup BaseExceptionsOnly}

\* `with security_context(...)`: the generator runs to its yield;
\* generate_correlation_id() is a new uuid4 each time
EnterSecurityContext(sink_ok) ==
    LET r == security_context_enter(uses + 1, sink_ok) IN
    /\ ctx.pc \in {"idle", "done"}
    /\ uses < MaxUses
    /\ uses' = uses + 1
    /\ ctx' = [kind |-> "security_context",
               pc |-> IF r.raised = None THEN "body" ELSE "done",
               correlation_id |-> uses + 1,
               events |-> r.events, atBody |-> <<>>,
               body |-> NotRun, raised |-> r.raised]
    /\ UNCHANGED <<now, jwtVars, accessVars, rateVars, otpVars, catalogVars,
                   utilVars, decoratorVars>>

\* a call of a function decorated with audit_data_access: nothing is logged
\* before the function runs
CallAuditedFunction(user_context) ==
    /\ ctx.pc \in {"idle", "done"}
    /\ uses < MaxUses
    /\ uses' = uses + 1
    /\ ctx' = [kind |-> "audit_data_access", pc |-> "body",
               user_context |-> user_context,
               events |-> <<>>, atBody |-> <<>>,
               body |-> NotRun, raised |-> None]
    /\ UNCHANGED <<now, jwtVars, accessVars, rateVars, otpVars, catalogVars,
                   utilVars, decoratorVars>>

\* the with-block, or the decorated function, runs and ends
RunBody(outcome) ==
    /\ ctx.pc = "body"
    /\ ctx' = [ctx EXCEPT !.pc = "exit", !.body = outcome,
                          !.atBody = ctx.events]
    /\ UNCHANGED <<now, uses, jwtVars, accessVars, rateVars, otpVars, catalogVars,
                   utilVars, decoratorVars>>

ExitSecurityContext(sinks) ==
    LET r == security_context_exit(ctx.correlation_id, ctx.body, sinks) IN
    /\ ctx.pc = "exit"
    /\ ctx.kind = "security_context"
    /\ ctx' = [ctx EXCEPT !.pc = "done", !.events = ctx.events \o r.events,
                          !.raised = r.raised]
    /\ UNCHANGED <<now, uses, jwtVars, accessVars, rateVars, otpVars, catalogVars,
                   utilVars, decoratorVars>>

ExitAuditDataAccess(sinks) ==
    LET r == audit_data_access_wrapper(ctx.user_context, ctx.body, sinks) IN
    /\ ctx.pc = "exit"
    /\ ctx.kind = "audit_data_access"
    /\ ctx' = [ctx EXCEPT !.pc = "done", !.events = ctx.events \o r.events,
                          !.raised = r.raised]
    /\ UNCHANGED <<now, uses, jwtVars, accessVars, rateVars, otpVars, catalogVars,
                   utilVars, decoratorVars>>

\* ------------------------------------------------ the permission catalog
\* some set object differs from what the module created or a call returned
Mutated(heap) ==
    \/ heap.module # ModuleSets
    \/ \E i \in DOMAIN heap.returned :
           heap.returned[i] \notin {ADMIN_PERMISSIONS, DOCTOR_PERMISSIONS}

GetPermissionsForRole(role) ==
    LET r == get_permissions_for_role_call(objects, role) IN
    /\ Len(objects.returned) < MaxReturnedSets
    /\ objects' = r.objects
    /\ got' = [op |-> "get_permissions_for_role", role |-> role,
               ref |-> r.ref, value |-> Read(r.objects, r.ref),
               afterMutation |-> Mutated(objects)]
    /\ UNCHANGED <<now, jwtVars, accessVars, rateVars, otpVars, contextVars,
                   utilVars, decoratorVars>>

\* the tags a caller adds to or discards from a set it was given
MutationTags == {"view_other_doctor_patients", "manage_doctors", "view_own_queue"}

\* the references callers hold: every set a call returned
HeldRefs ==
    {[kind |-> "returned", index |-> i] : i \in DOMAIN objects.returned}
    \cup (IF got = NoCall THEN {} ELSE {got.ref})

\* a caller mutates a set it holds: s.add(tag) or s.discard(tag)
MutateReturnedSet(ref, tag, add) ==
    /\ objects' = Write(objects, ref,
                        IF add THEN Read(objects, ref) \cup {tag}
                        ELSE Read(objects, ref) \ {tag})
    /\ UNCHANGED <<now, got, jwtVars, accessVars, rateVars, otpVars, contextVars,
                   utilVars, decoratorVars>>

\* ------------------------------------------- exceptions and PII/OTP helpers
\* the exception classes and the helpers keep no state between calls, so a
\* behaviour holds one call of them (and the decrypt call that follows an
\* encrypt call)
\* an exception of the class is constructed and raised
RaiseException(exception) ==
    /\ util = NoCall
    /\ util' = [op |-> "raise", exception |-> exception,
                http_status |-> http_status(exception)]
    /\ UNCHANGED <<now, jwtVars, accessVars, rateVars, otpVars, contextVars,
                   catalogVars, decoratorVars>>

\* the strings a caller can pass as code or request id
IdStrings == UNION {[1..n -> {"1", ":"}] : n \in 1..MaxIdLength}

\* verify_otp(otp, h, request_id) on the digest h stored for a challenge
VerifyStoredDigest(otp, request_id, stored_otp, stored_request_id) ==
    /\ util = NoCall
    /\ util' = [op |-> "verify_otp", otp |-> otp, request_id |-> request_id,
                stored_otp |-> stored_otp,
                stored_request_id |-> stored_request_id,
                value |-> verify_otp(otp,
                              create_otp_hash(stored_otp, stored_request_id),
                              request_id)]
    /\ UNCHANGED <<now, jwtVars, accessVars, rateVars, otpVars, contextVars,
                   catalogVars, decoratorVars>>

\* the strings handed to the PII helpers, the empty one included
Texts == UNION {[1..n -> {"a", "b"}] : n \in 0..MaxTextLength}

EncryptSensitiveData(encryption_key, data, data_encryption_enabled, iv) ==
    LET self == DataEncryption(encryption_key)
        r == encrypt_sensitive_data(self, Text(data),
                                    data_encryption_enabled, iv)
    IN /\ util = NoCall
       /\ util' = [op |-> "encrypt_sensitive_data", self |-> self,
                   data |-> Text(data),
                   enabled |-> data_encryption_enabled,
                   outcome |-> r.outcome, value |-> r.value]
       /\ UNCHANGED <<now, jwtVars, accessVars, rateVars, otpVars,
                      contextVars, catalogVars, decoratorVars>>

\* decrypt_sensitive_data on what the last encrypt_sensitive_data returned,
\* under the same configuration
DecryptSensitiveData(encryption_key) ==
    LET self == DataEncryption(encryption_key)
        r == decrypt_sensitive_data(self, util.value, util.enabled)
    IN /\ util.op = "encrypt_sensitive_data"
       /\ util.outcome = "ok"
       /\ util' = [op |-> "decrypt_sensitive_data", self |-> self,
                   encrypted_by |-> util.self, plain |-> util.data,
                   data |-> util.value, enabled |-> util.enabled,
                   outcome |-> r.outcome, value |-> r.value]
       /\ UNCHANGED <<now, jwtVars, accessVars, rateVars, otpVars,
                      contextVars, catalogVars, decoratorVars>>

MaskPiiData(data, mask_char, pii_masking_enabled) ==
    /\ util = NoCall
    /\ util' = [op |-> "mask_pii_data", data |-> data,
                mask_char |-> mask_char, enabled |-> pii_masking_enabled,
                value |-> mask_pii_data(data, mask_char, pii_masking_enabled)]
    /\ UNCHANGED <<now, jwtVars, accessVars, rateVars, otpVars, contextVars,
                   catalogVars, decoratorVars>>

\* ---------------------------------------------- phone numbers in the logs
LogAuthenticationEvent(event_type, user_id, whatsapp_number, success) ==
    /\ util = NoCall
    /\ util' = [op |-> "log_authentication_event",
                whatsapp_number |-> whatsapp_number,
                events |-> <<log_authentication_event(event_type, user_id,
                                 whatsapp_number, success)>>]
    /\ UNCHANGED <<now, jwtVars, accessVars, rateVars, otpVars, contextVars,
                   catalogVars, decoratorVars>>

\* check_otp_rate_limit: check_rate_limit on "otp:<number>" with the
\* configured hourly limit
CheckOtpRateLimit(whatsapp_number) ==
    LET identifier == otp_identifier(whatsapp_number)
        OtpRateWindowSeconds == 3600
        r == check_rate_limit(requests[identifier], OtpRateLimitPerHour,
                              OtpRateWindowSeconds, now)
    IN /\ calls < MaxOtpRequests
       /\ calls' = calls + 1
       /\ requests' = [requests EXCEPT ![identifier] = r.history]
       /\ rl' = [op |-> "check_otp_rate_limit",
                 whatsapp_number |-> whatsapp_number,
                 identifier |-> identifier, t |-> now,
                 outcome |-> r.outcome,
                 events |-> check_rate_limit_events(identifier,
                                requests[identifier], OtpRateLimitPerHour,
                                OtpRateWindowSeconds, "otp", now),
                 previous |-> rejected[identifier]]
       /\ rejected' = [rejected EXCEPT ![identifier] =
                           IF r.outcome = "ok" THEN NotRejected
                           ELSE [raised |-> TRUE, t |-> now,
                                 error |-> RateLimitExceededError(identifier,
                                               OtpRateLimitPerHour,
                                               OtpRateWindowSeconds)]]
       /\ UNCHANGED <<now, limit, window, granted, pc, frame, jwtVars,
                      accessVars, otpVars, contextVars, catalogVars,
                      utilVars, decoratorVars>>

\* ------------------------------------------------------ decorated handlers
\* the identities a request may carry in current_user
CurrentUsers ==
    {JWTPayload(td) : td \in {x \in TokenDataInputs :
                                 /\ ~JWTPayloadRaises(x)
                                 /\ x.clinic_id = "c1"
                                 /\ x.doctor_id # "d2"
                                 /\ x.patient_access_scope =
                                        get_data_access_scope(x.role)}}

\* the permission decorators keep no state between calls, so a behaviour
\* holds one call of them
DecoratedCall(op, required, current_user, r) ==
    /\ handled = NoCall
    /\ handled' = [op |-> op, required |-> required,
                   current_user |-> current_user, outcome |-> r.outcome,
                   error_code |-> r.error_code, ran |-> r.ran]
    /\ UNCHANGED <<now, runs, jwtVars, accessVars, rateVars, otpVars,
                   contextVars, catalogVars, utilVars>>

CallRequirePermission(required_permission, current_user) ==
    DecoratedCall("require_permission", required_permission, current_user,
                  require_permission_wrapper(required_permission, current_user))

CallRequireAnyPermission(required_permissions, current_user) ==
    DecoratedCall("require_any_permission", required_permissions, current_user,
                  require_any_permission_wrapper(required_permissions,
                                                 current_user))

CallRequireRole(required_role, current_user) ==
    DecoratedCall("require_role", required_role, current_user,
                  require_role_wrapper(required_role, current_user))

\* a call of a handler decorated with rate_limited(limit, window)
CallRateLimited(identifier) ==
    LET r == rate_limited_wrapper(identifier, limit, window, now) IN
    /\ calls < MaxCalls
    /\ calls' = calls + 1
    /\ handled' = [op |-> "rate_limited", identifier |-> identifier,
                   t |-> now, before |-> runs[identifier],
                   outcome |-> r.outcome, error_code |-> r.error_code,
                   ran |-> r.ran]
    /\ runs' = IF r.ran THEN [runs EXCEPT ![identifier] = Append(@, now)]
               ELSE runs
    /\ UNCHANGED <<now, limit, window, requests, rl, granted, pc, frame,
                   rejected, jwtVars, accessVars, otpVars, contextVars,
                   catalogVars, utilVars>>

\* --------------------------------------------------------- specifications
\* RateLimiter(): no identifier has a request yet
InitLimiter(identifiers) ==
    /\ requests = [i \in identifiers |-> <<>>]
    /\ granted = [i \in identifiers |-> <<>>]
    /\ rejected = [i \in identifiers |-> NotRejected]
    /\ runs = [i \in identifiers |-> <<>>]

InitCommon ==
    /\ now = 0
    /\ identity = NoIdentity
    /\ iso = NoIso
    /\ tokens = {}
    /\ nextJti = 1
    /\ res = NoCall
    /\ returned = {}
    /\ rl = NoCall
    /\ calls = 0
    /\ pc = [th \in Threads |-> "idle"]
    /\ frame = [th \in Threads |-> NoFrame]
    /\ otpStore = [r \in RequestIds |-> NoRecord]
    /\ otpLog = <<>>
    /\ ctx = NoContext
    /\ uses = 0
    /\ objects = [module |-> ModuleSets, returned |-> <<>>]
    /\ got = NoCall
    /\ util = NoCall
    /\ handled = NoCall

\* outside the rate limiter's specifications its arguments play no part
Init ==
    /\ InitCommon
    /\ InitLimiter(Identifiers)
    /\ blacklist = [i \in Instances |-> NewJWTSecurity]
    /\ limit = 1
    /\ window = 1

\* every call site passes its own fixed limit and window_seconds
InitRate ==
    /\ InitCommon
    /\ InitLimiter(Identifiers)
    /\ blacklist = [i \in Instances |-> NewJWTSecurity]
    /\ limit \in 1..MaxLimit
    /\ window \in 1..MaxWindow

Next ==
    \/ \E u \in UserIds, c \in JwtClinicIds, w \in Phones, r \in UserRole,
          d \in JwtDoctorIds \cup {None}, p \in TokenPermissionArgs,
          ttl \in Ttls :
          CreateAccessToken(u, c, w, r, d, p, ttl)
    \/ \E u \in UserIds, c \in JwtClinicIds, ttl \in Ttls :
          CreateRefreshToken(u, c, ttl)
    \/ \E token \in Presentable : DecodeToken(token)
    \/ \E token \in tokens : RefreshAccessToken(token)
    \/ \E token \in tokens : InvalidateToken(token)
    \/ \E i \in Instances, token \in tokens : RevokeToken(i, token)
    \/ \E i \in Instances, token \in tokens : IsTokenRevoked(i, token)
    \/ \E token \in Presentable : GetCurrentUser(token)
    \/ Tick

Spec == Init /\ [][Next]_vars

\* is_token_revoked as a function of the instance it is called on: the
\* instances hold any blacklist of the shape revoke_token stores, for the
\* tokens a client may present
Jtis == 1..(MaxTokens + 1)

QueryTokens ==
    {create_refresh_token(u, c, ttl, 0, jti) :
        u \in UserIds, c \in JwtClinicIds, ttl \in Ttls, jti \in Jtis}

\* the entry revoke_token stores for a token: expires_at is the token's exp
BlacklistEntry(token) ==
    [revoked_at |-> 0, expires_at |-> token.claims.exp,
     token_hash |-> [sha256_16 |-> token]]

\* _token_blacklist holding entries for some tokens, one per jti
Blacklists ==
    {NewJWTSecurity} \cup
    {[has_blacklist |-> TRUE,
      entries |-> [j \in J |-> BlacklistEntry(
                      create_refresh_token("u1", "c1", x[j], 0, j))]] :
        J \in SUBSET Jtis, x \in [Jtis -> 0..MaxTime]}

\* the module-level jwt_security has served for a while; the caller's
\* instance is new
InitBlacklist ==
    /\ InitCommon
    /\ InitLimiter(Identifiers)
    /\ blacklist \in {[jwt_security |-> b, caller_instance |-> NewJWTSecurity] :
                          b \in Blacklists}
    /\ limit = 1
    /\ window = 1

NextBlacklist ==
    \/ \E i \in Instances, token \in QueryTokens : IsTokenRevoked(i, token)
    \/ Tick

SpecBlacklist == InitBlacklist /\ [][NextBlacklist]_vars

\* the inbound request path: a bearer token signed with jwt_secret_key over
\* the claims JWTPayload.to_dict gives "for JWT encoding", with the jti and
\* token_type of an access token
InboundToken(role, doctor_id, exp, jti) ==
    [claims |-> [jti |-> jti, token_type |-> "access"] @@
                create_jwt_payload_data("u1", "c1", "+919876543210", role,
                                        doctor_id, exp, 0, 0),
     key |-> JwtSecret]

InboundTokens ==
    {InboundToken(r, IF r = "DOCTOR" THEN "d1" ELSE None, e, j) :
        r \in UserRole, e \in Ttls, j \in Jtis}

NextInbound ==
    \/ \E token \in InboundTokens \cup {Forge(t) : t \in InboundTokens} :
          GetCurrentUser(token)
    \/ \E token \in InboundTokens : InvalidateToken(token)
    \/ \E i \in Instances, token \in InboundTokens : RevokeToken(i, token)
    \/ Tick

SpecInbound == Init /\ [][NextInbound]_vars

NextContext ==
    \/ \E sink_ok \in BOOLEAN : EnterSecurityContext(sink_ok)
    \/ \E user_context \in {None, "u1"} : CallAuditedFunction(user_context)
    \/ \E outcome \in BodyOutcomes : RunBody(outcome)
    \/ \E sinks \in [1..2 -> BOOLEAN] : ExitSecurityContext(sinks)
    \/ \E sinks \in [1..2 -> BOOLEAN] : ExitAuditDataAccess(sinks)

SpecContext == Init /\ [][NextContext]_vars

NextCatalog ==
    \/ \E role \in UserRole : GetPermissionsForRole(role)
    \/ \E ref \in HeldRefs, tag \in MutationTags, add \in BOOLEAN :
          MutateReturnedSet(ref, tag, add)

SpecCatalog == Init /\ [][NextCatalog]_vars

NextAccess ==
    \/ \E td \in TokenDataInputs : ConstructJWTPayload(td)
    \/ \E u \in UserIds, c \in ClinicIds, w \in Phones, r \in UserRole,
          d \in DoctorIds \cup {None}, e \in {0, MaxTime + 1}, i \in {0, 1} :
          CreateJwtPayload(u, c, w, r, d, e, i)
    \/ \E rc \in ClinicIds, rd \in DoctorIds \cup {None, ""},
          rp \in PatientIds \cup {None, ""} :
          ValidateDataIsolation(rc, rd, rp)
    \/ \E c \in ClinicIds, d \in DoctorIds, p \in PatientIds \cup {None} :
          EnsurePatientDataIsolation(c, d, p)

SpecAccess == Init /\ [][NextAccess]_vars

NextRate ==
    \/ \E identifier \in Identifiers : CheckRateLimit(identifier)
    \/ Tick

SpecRate == InitRate /\ [][NextRate]_vars

NextRateConcurrent ==
    \/ \E th \in Threads, identifier \in {"u1"} :
          EnterCheck(th, identifier)
    \/ \E th \in Threads : CleanOld(th)
    \/ \E th \in Threads : StoreCleaned(th)
    \/ \E th \in Threads : CheckLimit(th)
    \/ \E th \in Threads : AppendRequest(th)
    \/ Tick

SpecRateConcurrent == InitRate /\ [][NextRateConcurrent]_vars

NextOtp ==
    \/ \E r \in RequestIds, otp \in Codes : IssueOtp(r, otp)
    \/ \E r \in RequestIds, otp \in Codes : VerifyOtp(r, otp)

SpecOtp == Init /\ [][NextOtp]_vars

NextUtil ==
    \/ util = NoCall /\ \E e \in ExceptionClasses : RaiseException(e)
    \/ util = NoCall /\ \E c \in IdStrings, r \in IdStrings,
                            sc \in IdStrings, sr \in IdStrings :
                             VerifyStoredDigest(c, r, sc, sr)
    \/ util = NoCall /\ \E k \in {None, "clinic-key"}, x \in Texts,
                            enabled \in BOOLEAN, iv \in {1, 2} :
                             EncryptSensitiveData(k, x, enabled, iv)
    \/ \E k \in {None, "clinic-key"} : DecryptSensitiveData(k)
    \/ util = NoCall /\ \E x \in Texts, m \in {"*", "#"},
                            enabled \in BOOLEAN : MaskPiiData(x, m, enabled)

SpecUtil == Init /\ [][NextUtil]_vars

NextPii ==
    \/ util = NoCall /\ \E e \in {"login", "otp_verify"},
                            u \in UserIds \cup {None},
                            w \in {PhoneNumber, <<"9", "8", "7", "6">>, <<>>},
                            ok \in BOOLEAN :
                             LogAuthenticationEvent(e, u, w, ok)
    \/ CheckOtpRateLimit(PhoneNumber)
    \/ Tick

\* the limiter is asked about a phone number only
InitPii ==
    /\ InitCommon
    /\ InitLimiter({otp_identifier(PhoneNumber)})
    /\ blacklist = [i \in Instances |-> NewJWTSecurity]
    /\ limit = 1
    /\ window = 1

SpecPii == InitPii /\ [][NextPii]_vars

NextDecorators ==
    \/ handled = NoCall
       /\ \E p \in {"manage_doctors", "view_own_queue", "create_token"},
             u \in CurrentUsers \cup {NoCurrentUser} :
              CallRequirePermission(p, u)
    \/ handled = NoCall
       /\ \E ps \in {<<"manage_doctors">>,
                      <<"view_own_queue", "create_token">>},
             u \in CurrentUsers \cup {NoCurrentUser} :
              CallRequireAnyPermission(ps, u)
    \/ handled = NoCall
       /\ \E r \in UserRole, u \in CurrentUsers \cup {NoCurrentUser} :
              CallRequireRole(r, u)
    \/ \E identifier \in Identifiers : CallRateLimited(identifier)
    \/ Tick

SpecDecorators == InitRate /\ [][NextDecorators]_vars

\* ------------------------------------------------------------------ claims
\* the seed of an access token is valid: a doctor id iff the role is DOCTOR
ValidSeed(claims) == (claims.role = "DOCTOR") <=> (claims.doctor_id # None)

Unexpired(call) == call.t < call.token.claims.exp

\* C1: after revoke_token(t) or invalidate_token(t) has returned for an
\* unexpired token t, every decode_token(t) before t's expiry fails with the
\* revocation error.
C1_RevokedTokenRejected ==
    (/\ res.op = "decode_token"
     /\ res.token \in tokens
     /\ res.afterRevoke
     /\ Unexpired(res))
    => (/\ res.outcome = "InvalidTokenError"
        /\ res.details = "Token has been revoked")

\* C2: a refresh token never yields an identity from get_current_user and,
\* while unexpired, is refused with InvalidTokenError; refresh_access_token
\* never mints an access token from an access token.
C2_TokenKindsNeverConfused ==
    /\ (/\ res.op = "get_current_user"
        /\ res.token \in tokens
        /\ res.token.claims.token_type = "refresh")
       => (/\ res.outcome # "ok"
           /\ Unexpired(res) => res.outcome = "InvalidTokenError")
    /\ (/\ res.op = "refresh_access_token"
        /\ res.token.claims.token_type = "access")
       => (/\ res.outcome # "ok"
           /\ Unexpired(res) => res.outcome = "InvalidTokenError")

C2_Witness ==
    /\ res.op = "refresh_access_token"
    /\ res.token.claims.token_type = "access"
    /\ Unexpired(res)
    /\ res.outcome = "InvalidTokenError"
    /\ res.details = "expected_type"

\* C3: get_current_user on an unexpired token that create_access_token
\* issued for a valid seed succeeds, and the identity's permission set is
\* get_permissions_for_role(seed.role).
C3_AccessTokenRoundTrip ==
    (/\ res.op = "get_current_user"
     /\ res.token \in tokens
     /\ res.token.claims.token_type = "access"
     /\ ValidSeed(res.token.claims)
     /\ Unexpired(res))
    => (/\ res.outcome = "ok"
        /\ res.value.permissions =
               get_permissions_for_role(res.token.claims.role))

\* C4: every identity built by JWTPayload or create_jwt_payload has exactly
\* the catalog's permission set and data-access scope for its role, whatever
\* the payload carries.
C4_IdentityMatchesCatalog ==
    identity.state = "ok"
    => (/\ identity.self.permissions =
               get_permissions_for_role(identity.self.role)
        /\ identity.self.patient_access_scope =
               get_data_access_scope(identity.self.role))

\* C5: validate_data_isolation refuses with CLINIC_ACCESS_DENIED every
\* identity whose clinic differs from the resource's, for either role and
\* any resource doctor and patient id.
C5_ClinicMismatchDenied ==
    (/\ iso.state = "done"
     /\ identity.self.clinic_id # iso.resource_clinic_id)
    => iso.outcome = "CLINIC_ACCESS_DENIED"

C5_Witness ==
    /\ iso.state = "done"
    /\ identity.self.role = "ADMIN"
    /\ identity.self.clinic_id # iso.resource_clinic_id
    /\ iso.resource_doctor_id \in DoctorIds
    /\ iso.resource_patient_id \in PatientIds
    /\ iso.outcome = "CLINIC_ACCESS_DENIED"

\* C6: with the clinic matching and a resource doctor id given,
\* validate_data_isolation succeeds iff the identity is ADMIN or its
\* doctor_id is the resource's doctor id, with or without a patient id.
C6_DoctorBoundary ==
    (/\ iso.state = "done"
     /\ identity.self.clinic_id = iso.resource_clinic_id
     /\ Truthy(iso.resource_doctor_id))
    => (iso.outcome = "ok"
        <=> (\/ identity.self.role = "ADMIN"
             \/ identity.self.doctor_id = iso.resource_doctor_id))

C6_Witness ==
    /\ iso.state = "done"
    /\ identity.self.role = "DOCTOR"
    /\ identity.self.clinic_id = iso.resource_clinic_id
    /\ identity.self.doctor_id = "d1"
    /\ iso.resource_doctor_id = "d2"
    /\ iso.resource_patient_id = None
    /\ iso.outcome = "DOCTOR_ACCESS_DENIED"

\* how many timestamps of a list lie in the window (lo, hi]
CountIn(history, lo, hi) ==
    Cardinality({i \in DOMAIN history : history[i] > lo /\ history[i] <= hi})

\* C7: on one RateLimiter, for each identifier, at most `limit` successful
\* check_rate_limit calls fall in any trailing window; a call succeeds iff
\* fewer than `limit` earlier successes lie in its window (so the call after
\* `limit` successes raises and calls succeed again once the window has
\* passed); the stored history holds no timestamp older than the window.
C7_SlidingWindow ==
    /\ \A identifier \in Identifiers, t \in 0..now :
           CountIn(granted[identifier], t - window, t) <= limit
    /\ rl.op = "check_rate_limit" =>
           LET earlier == CountIn(granted[rl.identifier], rl.t - window, rl.t)
                          - (IF rl.outcome = "ok" THEN 1 ELSE 0)
           IN /\ rl.outcome = "ok" <=> earlier < limit
              /\ rl.outcome \in {"ok", "RateLimitExceededError"}
              /\ \A i \in DOMAIN requests[rl.identifier] :
                     requests[rl.identifier][i] > rl.t - window

C7_Witness ==
    /\ rl.op = "check_rate_limit"
    /\ rl.outcome = "RateLimitExceededError"
    /\ Len(granted[rl.identifier]) > limit
    /\ CountIn(granted[rl.identifier], rl.t - window, rl.t) = limit

\* C8: under any interleaving of concurrent check_rate_limit calls on one
\* identifier, no more than `limit` calls pass within a window and no
\* recorded timestamp of the current window is lost from the history.
C8_AtomicUnderConcurrency ==
    \A identifier \in Identifiers :
        /\ \A t \in 0..now :
               CountIn(granted[identifier], t - window, t) <= limit
        /\ (\A th \in Threads : pc[th] = "idle") =>
               \A g \in 0..now :
                   g > now - window =>
                       CountIn(requests[identifier], g - 1, g)
                           >= CountIn(granted[identifier], g - 1, g)

\* the failed verifications logged for the request id of call i before it
FailedBefore(i) ==
    Cardinality({j \in 1..(i - 1) :
                    /\ otpLog[j].request_id = otpLog[i].request_id
                    /\ ~otpLog[j].success})

\* C9: once OtpMaxAttempts verifications have failed for a request id, every
\* further verification for it is rejected, the correct code included.
C9_MaxAttemptsLockout ==
    \A i \in DOMAIN otpLog :
        FailedBefore(i) >= OtpMaxAttempts => ~otpLog[i].success

\* C10: after one successful verification against a record, no later
\* verification against the same record succeeds.
C10_SingleUse ==
    \A i, j \in DOMAIN otpLog :
        (/\ i < j
         /\ otpLog[i].request_id = otpLog[j].request_id
         /\ otpLog[i].success)
        => ~otpLog[j].success

\* C11: decode_token fails with TokenExpiredError exactly for a validly
\* signed token past its expiry, with InvalidTokenError for a bad signature or
\* format, and for a revoked, unexpired token with an error whose type and
\* code are neither of those two.
C11_FailuresDifferentiated ==
    res.op = "decode_token" =>
        /\ res.outcome = "TokenExpiredError"
               <=> (/\ res.token.key = JwtSecret
                    /\ res.token.claims.exp < res.t)
        /\ (res.token.key # JwtSecret /\ ~res.afterRevoke)
               => res.outcome = "InvalidTokenError"
        /\ (res.token \in tokens /\ res.afterRevoke /\ Unexpired(res))
               => (/\ res.outcome \notin {"ok", "TokenExpiredError",
                                          "InvalidTokenError"}
                   /\ error_code(res.outcome)
                          \notin {None, "TOKEN_EXPIRED", "INVALID_TOKEN"})

\* the blacklist entry is_token_revoked found for the token of the last call
EntryBefore == res.before.entries[res.token.claims.jti]

\* C12: is_token_revoked on a blacklist entry whose expires_at has passed
\* returns False and deletes that entry, leaving the others; on an entry
\* whose expires_at has not passed it returns True and changes nothing.
C12_LazyCleanup ==
    (/\ res.op = "is_token_revoked"
     /\ res.before.has_blacklist
     /\ res.token.claims.jti \in DOMAIN res.before.entries)
    => IF res.t > EntryBefore.expires_at
       THEN /\ res.outcome = "False"
            /\ DOMAIN blacklist[res.instance].entries =
                   DOMAIN res.before.entries \ {res.token.claims.jti}
            /\ \A j \in DOMAIN blacklist[res.instance].entries :
                   blacklist[res.instance].entries[j] = res.before.entries[j]
       ELSE /\ res.outcome = "True"
            /\ blacklist[res.instance] = res.before

C12_Witness ==
    /\ res.op = "is_token_revoked"
    /\ res.before.has_blacklist
    /\ DOMAIN res.before.entries = Jtis
    /\ res.t > EntryBefore.expires_at
    /\ res.outcome = "False"
    /\ DOMAIN blacklist[res.instance].entries = Jtis \ {res.token.claims.jti}

\* C13: get_current_user never returns an identity for an unexpired token
\* that has been revoked: after revoke_token or invalidate_token returned
\* for the token, no call hands out an identity for it.
C13_NoIdentityForRevokedToken ==
    (/\ res.op = "get_current_user"
     /\ res.afterRevoke
     /\ Unexpired(res))
    => res.outcome # "ok"

\* C14: refresh_access_token on an unexpired, non-revoked token minted by
\* create_refresh_token returns a new access token for the same user_id and
\* clinic_id.
C14_RefreshYieldsAccessToken ==
    (/\ res.op = "refresh_access_token"
     /\ res.token \in tokens
     /\ res.token.claims.token_type = "refresh"
     /\ ~res.afterRevoke
     /\ Unexpired(res))
    => (/\ res.outcome = "ok"
        /\ res.value.claims.token_type = "access"
        /\ res.value.claims.user_id = res.token.claims.user_id
        /\ res.value.claims.clinic_id = res.token.claims.clinic_id)

\* C15: every validate_data_isolation / ensure_patient_data_isolation call,
\* passing or failing, emits an audit event that records the outcome and the
\* boundary it evaluated.
C15_IsolationCheckAudited ==
    iso.state = "done" =>
        \E i \in DOMAIN iso.events :
            /\ iso.events[i].success = (iso.outcome = "ok")
            /\ iso.events[i].boundary \in {"clinic", "doctor", "patient"}

\* the events of a call that report its outcome (the blacklist check's own
\* warning is about that check)
OutcomeEvents(events) ==
    SelectSeq(events, LAMBDA e : e.event_type # "blacklist_check_error")

\* C16: every decode_token call emits exactly one log event for its
\* outcome: token_decode on success, and one event on each kind of failure.
C16_DecodeOutcomeLogged ==
    res.op = "decode_token" =>
        /\ Len(OutcomeEvents(res.events)) = 1
        /\ res.outcome = "ok"
               <=> OutcomeEvents(res.events)[1].event_type = "token_decode"

\* C17: when the wrapped action succeeds, its result reaches the caller and
\* no exception propagates from security_context or the audit_data_access
\* wrapper, whichever audit log call raises.
C17_LoggingFailureNeverAborts ==
    (ctx.pc = "done" /\ ctx.body = Returned) => ctx.raised = None

\* how many events of a type a use of security_context has emitted
CountEvents(events, event_type) ==
    Cardinality({i \in DOMAIN events : events[i].event_type = event_type})

\* C18: a use of security_context has emitted operation_start, and nothing
\* else, when the wrapped action runs; after it, exactly one
\* operation_success if the action returned, exactly one operation_failure
\* if it raised, never both, all with the use's correlation id; an exception
\* of the action is the one the caller gets.
C18_TripleLogging ==
    (/\ ctx.pc \in {"exit", "done"}
     /\ ctx.kind = "security_context"
     /\ ctx.body # NotRun)
    => /\ Len(ctx.atBody) = 1
       /\ ctx.atBody[1].event_type = "operation_start"
       /\ ctx.pc = "done" =>
           /\ CountEvents(ctx.events, "operation_start") = 1
           /\ \A i \in DOMAIN ctx.events :
                  ctx.events[i].details.correlation_id = ctx.correlation_id
           /\ IF ctx.body = Returned
              THEN /\ CountEvents(ctx.events, "operation_success") = 1
                   /\ CountEvents(ctx.events, "operation_failure") = 0
                   /\ ctx.raised = None
              ELSE /\ CountEvents(ctx.events, "operation_success") = 0
                   /\ CountEvents(ctx.events, "operation_failure") = 1
                   /\ ctx.raised = ctx.body.error

\* C19: no access token is ever issued for a seed that breaks "doctor id
\* present iff role is DOCTOR": create_access_token refuses such a seed.
C19_SeedPreconditionEnforced ==
    \A token \in tokens :
        token.claims.token_type = "access" => ValidSeed(token.claims)

\* C20: every get_permissions_for_role call returns the same non-empty set
\* for its role, whatever callers did to sets returned before; the DOCTOR
\* set holds no tag of DOCTOR_DENIED_PERMISSIONS or ADMIN_ONLY_PERMISSIONS.
C20_CatalogStable ==
    /\ objects.module = ModuleSets
    /\ got.op = "get_permissions_for_role" =>
           /\ got.value = (IF got.role = "ADMIN" THEN ADMIN_PERMISSIONS
                           ELSE DOCTOR_PERMISSIONS)
           /\ got.value # {}
           /\ got.role = "DOCTOR" =>
                  got.value \cap (DOCTOR_DENIED_PERMISSIONS
                                  \cup ADMIN_ONLY_PERMISSIONS) = {}

C20_Witness ==
    /\ got.op = "get_permissions_for_role"
    /\ got.role = "DOCTOR"
    /\ got.afterMutation
    /\ got.ref.kind = "returned"
    /\ \E i \in DOMAIN objects.returned :
           /\ i < got.ref.index
           /\ "view_other_doctor_patients" \in objects.returned[i]
    /\ got.value = DOCTOR_PERMISSIONS

\* the timestamps of a history that lie inside the window of a call at t
InWindow(history, t, window_seconds) ==
    SelectSeq(history, LAMBDA req_time : req_time > t - window_seconds)

\* C23: a rejected check_rate_limit call records nothing: the identifier's
\* history holds the same in-window timestamps after the call as before it,
\* and the call's own time is not added.
C23_RejectedCallRecordsNothing ==
    (/\ rl.op = "check_rate_limit"
     /\ rl.outcome = "RateLimitExceededError")
    => /\ InWindow(rl.after, rl.t, rl.window_seconds)
              = InWindow(rl.before, rl.t, rl.window_seconds)
       /\ requests[rl.identifier] = rl.after
       /\ Len(rl.after) <= Len(rl.before)

C23_Witness ==
    /\ rl.op = "check_rate_limit"
    /\ rl.outcome = "RateLimitExceededError"
    /\ Len(rl.before) = 2
    /\ rl.after = rl.before

\* C30: retry_after is sufficient: when an identifier's last call was
\* rejected at time t and its next call comes at or after t + retry_after,
\* that call succeeds.
C30_RetryAfterSufficient ==
    (/\ rl.op = "check_rate_limit"
     /\ rl.previous.raised
     /\ rl.t >= rl.previous.t + rl.previous.error.details.retry_after)
    => rl.outcome = "ok"

C30_Witness ==
    /\ rl.op = "check_rate_limit"
    /\ rl.previous.raised
    /\ rl.previous.error.details.retry_after = 2
    /\ rl.t = rl.previous.t + 2
    /\ rl.outcome = "ok"

\* the failures the status table names, and the status it gives each kind
OtpFailures == {"OTPExpiredError", "OTPInvalidError", "OTPMaxAttemptsError"}

TabledFailures ==
    AuthenticationErrors \cup AuthorizationErrors
        \cup {"RateLimitExceededError", "DatabaseError"}

TabledStatus(exception) ==
    IF exception \in OtpFailures THEN 422
    ELSE IF exception \in AuthenticationErrors THEN 401
    ELSE IF exception \in AuthorizationErrors THEN 403
    ELSE IF exception = "RateLimitExceededError" THEN 429
    ELSE 503

\* C21: every failure carries the HTTP status of its kind: 401 for
\* authentication failures, 403 for authorization and isolation failures,
\* 422 for OTP failures, 429 for rate limiting, 503 for an unavailable store.
C21_StatusOfEachKind ==
    (util.op = "raise" /\ util.exception \in TabledFailures)
    => util.http_status = TabledStatus(util.exception)

\* C22: verify_otp accepts a code and request id against a stored digest
\* only if they are the code and the request id the digest was made from.
C22_DigestBoundToRequestId ==
    (util.op = "verify_otp" /\ util.value)
    => (/\ util.otp = util.stored_otp
        /\ util.request_id = util.stored_request_id)

\* C24: with encryption enabled, decrypting what encrypt_sensitive_data
\* returned for a non-empty string gives that string back; with encryption
\* disabled both operations return their input unchanged.
C24_EncryptDecryptRoundTrip ==
    /\ (/\ util.op = "decrypt_sensitive_data"
        /\ util.enabled
        /\ util.self = util.encrypted_by
        /\ util.plain.chars # <<>>)
       => (util.outcome = "ok" /\ util.value = util.plain)
    /\ (/\ util.op \in {"encrypt_sensitive_data", "decrypt_sensitive_data"}
        /\ ~util.enabled)
       => (util.outcome = "ok" /\ util.value = util.data)

C24_Witness ==
    /\ util.op = "decrypt_sensitive_data"
    /\ util.enabled
    /\ util.self = util.encrypted_by
    /\ Len(util.plain.chars) = 3
    /\ util.data.kind = "b64"
    /\ util.value = util.plain

\* a sequence holds another one as a run of consecutive elements
Contains(value, part) ==
    \E i \in 1..(Len(value) - Len(part) + 1) :
        SubSeq(value, i, i + Len(part) - 1) = part

\* C25: no log record holds an unmasked phone number: the number in an
\* authentication event keeps at most its first 3 and last 3 characters,
\* and neither the rate-limit event keyed by a phone number nor the details
\* of the error raised with it holds the number.
C25_NoUnmaskedPhoneInLogs ==
    /\ (util.op = "log_authentication_event" /\ util.whatsapp_number # <<>>)
       => \A i \in DOMAIN util.events :
              LET logged == util.events[i].whatsapp_number IN
              /\ Len(logged) = Len(util.whatsapp_number)
              /\ \A j \in 4..(Len(logged) - 3) : logged[j] = "*"
              /\ ~Contains(logged, util.whatsapp_number)
    /\ rl.op = "check_otp_rate_limit"
       => /\ \A i \in DOMAIN rl.events :
                 ~Contains(rl.events[i].identifier, rl.whatsapp_number)
          /\ rejected[rl.identifier].raised =>
                 ~Contains(rejected[rl.identifier].error.details.identifier,
                           rl.whatsapp_number)

\* what mask_pii_data should return for a value when it masks
MaskedForDisplay(data, value, mask_char) ==
    /\ Len(value) = Len(data)
    /\ Len(data) < 4 => \A i \in DOMAIN value : value[i] = mask_char
    /\ Len(data) >= 4 =>
           /\ value[1] = data[1]
           /\ value[Len(data)] = data[Len(data)]
           /\ \A i \in 2..(Len(data) - 1) : value[i] = mask_char

\* C26 as stated: mask_pii_data returns a string of its input's length,
\* masked entirely when the input is shorter than 4 characters, and else
\* keeping only the first and last character.
C26_AsStated ==
    util.op = "mask_pii_data"
    => MaskedForDisplay(util.data, util.value, util.mask_char)

\* C26: with PII masking enabled, mask_pii_data returns a string of its
\* input's length, masked entirely when the input is shorter than 4
\* characters and else keeping only the first and last character; with PII
\* masking disabled it returns its input unchanged.
C26_MaskPiiData ==
    util.op = "mask_pii_data"
    => IF util.enabled
       THEN MaskedForDisplay(util.data, util.value, util.mask_char)
       ELSE util.value = util.data

C26_Witness ==
    /\ util.op = "mask_pii_data"
    /\ util.enabled
    /\ util.data = <<"a", "b", "b", "a", "b">>
    /\ util.value = <<"a", "#", "#", "#", "b">>

\* C27: a handler behind rate_limited(limit, window) runs at most `limit`
\* times per identifier in any window, and a call that finds `limit` runs
\* in its window raises RateLimitExceededError without running the handler.
C27_RateLimitedAcrossCalls ==
    /\ \A identifier \in Identifiers, t \in 0..now :
           CountIn(runs[identifier], t - window, t) <= limit
    /\ (/\ handled.op = "rate_limited"
        /\ CountIn(handled.before, handled.t - window, handled.t) >= limit)
       => (handled.outcome = "RateLimitExceededError" /\ ~handled.ran)

\* the current user of a decorated call lacks what the decorator requires
Lacks(call) ==
    IF call.op = "require_permission"
    THEN call.required \notin call.current_user.permissions
    ELSE IF call.op = "require_any_permission"
    THEN Range(call.required) \cap call.current_user.permissions = {}
    ELSE call.current_user.role # call.required

\* C28: behind require_permission, require_any_permission and require_role
\* the handler body runs only when the check passed: without a current_user
\* the call raises AuthenticationError MISSING_USER_CONTEXT, with a user
\* lacking the permission or role InsufficientPermissionsError, and the body
\* is not run in either case.
C28_HandlerRunsOnlyAfterCheck ==
    handled.op \in {"require_permission", "require_any_permission",
                    "require_role"}
    => IF handled.current_user = NoCurrentUser
       THEN /\ handled.outcome = "AuthenticationError"
            /\ handled.error_code = "MISSING_USER_CONTEXT"
            /\ ~handled.ran
       ELSE IF Lacks(handled)
       THEN /\ handled.outcome = "InsufficientPermissionsError"
            /\ ~handled.ran
       ELSE handled.ran /\ handled.outcome = "ok"

C28_Witness ==
    /\ handled.op = "require_permission"
    /\ handled.current_user # NoCurrentUser
    /\ handled.current_user.role = "DOCTOR"
    /\ handled.required = "manage_doctors"
    /\ handled.outcome = "InsufficientPermissionsError"
    /\ ~handled.ran

\* C29: validate_data_isolation reports the first boundary violated in the
\* order clinic, doctor, patient: a clinic mismatch is CLINIC_ACCESS_DENIED
\* even when the doctor mismatches too, a doctor mismatch within the clinic
\* is DOCTOR_ACCESS_DENIED, and PATIENT_ACCESS_DENIED is never the outcome.
C29_FirstViolatedBoundaryReported ==
    iso.state = "done"
    => LET clinicMismatch == identity.self.clinic_id # iso.resource_clinic_id
           doctorMismatch ==
               /\ identity.self.role = "DOCTOR"
               /\ Truthy(iso.resource_doctor_id)
               /\ identity.self.doctor_id # iso.resource_doctor_id
       IN /\ clinicMismatch => iso.outcome = "CLINIC_ACCESS_DENIED"
          /\ (~clinicMismatch /\ doctorMismatch)
                 => iso.outcome = "DOCTOR_ACCESS_DENIED"
          /\ (~clinicMismatch /\ ~doctorMismatch) => iso.outcome = "ok"
          /\ iso.outcome # "PATIENT_ACCESS_DENIED"

C29_Witness ==
    /\ iso.state = "done"
    /\ identity.self.role = "DOCTOR"
    /\ identity.self.clinic_id # iso.resource_clinic_id
    /\ Truthy(iso.resource_doctor_id)
    /\ identity.self.doctor_id # iso.resource_doctor_id
    /\ Truthy(iso.resource_patient_id)
    /\ iso.outcome = "CLINIC_ACCESS_DENIED"

====
